---- MODULE Spec2Model ----
(***************************************************************************)
(* A model of pol's ElGamal safe (src/src/safe.py): the block store, the   *)
(* per-block keying, the slice engine, the rerandomizer and the validation *)
(* done when a safe is constructed from a serialised map.                  *)
(*                                                                         *)
(* Byte strings are sequences over 0..Radix-1.  The safe's parameters are  *)
(* scaled down (a "byte" has Radix values, the group is Z_P^* with P a     *)
(* small prime above Radix^bytes_per_block) so that the arithmetic of      *)
(* every operation is computed exactly as the code computes it.            *)
(* A block field is kept as the number its byte string encodes (the        *)
(* string mpz.binary() gives a number is canonical, so two fields are the  *)
(* same string exactly when they are the same number); the empty string '' *)
(* of a freshly generated block is kept apart as EmptyStr: gmpy.mpz reads  *)
(* it as 0, and mpz(0).binary() is the one-byte string '\x00', not ''.     *)
(***************************************************************************)
EXTENDS Integers, Sequences, FiniteSets, TLC

----------------------------------------------------------------------------
(* Parameters of the safe under study *)

\* number of values of one byte of the model (256 in the code)
Radix == 4
\* n-blocks
nblocks == 3
\* bytes-per-block B
bytes_per_block == 4
\* block-index-size I
block_index_size == 1
\* slice-size S (the size of the size field)
slice_size == 2
\* cipher.blocksize and cipher.keysize of the block cipher in use
blocksize == 1
keysize == 1
\* group parameters: P prime, G a generator of Z_P^*
P == 257
G == 3

Indices == 0 .. (nblocks - 1)
Byte == 0 .. (Radix - 1)

\* domain-separation constants (src/src/safe.py:34-35), as small tags
KD_ELGAMAL == 1
KD_SYMM == 2

\* chunk_size of the rerandomizer's parallel_map (16 in the code)
chunk_size == 2

----------------------------------------------------------------------------
(* Bounds of the exploration *)

\* nworkers of a rerandomize
NWorkers == 2

\* number of operations applied to a safe
MaxSteps == 3
\* number of Slice objects kept alive
MaxSlices == 2
\* base keys 1..NKeys are the callers' (outputs of key stretching)
NKeys == 2

BaseKeys == 1 .. NKeys
\* the key a trash draws from randfunc: a fresh one, no caller's base key
RandomKeys == {NKeys + 1}
\* seeds of the deterministic randfunc handed to store/trash/encrypt
Seeds == {0, 1}

----------------------------------------------------------------------------
(* Arithmetic in Z_P and the byte-string encodings *)

RECURSIVE RadixPow(_)
RadixPow(n) == IF n <= 0 THEN 1 ELSE Radix * RadixPow(n - 1)

\* pow(b, e, P)
RECURSIVE PowMod(_, _)
PowMod(b, e) ==
    IF e = 0 THEN 1
    ELSE LET h == PowMod(b, e \div 2)
             q == (h * h) % P
         IN IF e % 2 = 1 THEN (q * (b % P)) % P ELSE q

\* gmpy.invert(a, P), P prime
Invert(a) == PowMod(a, P - 2)

\* gmpy.mpz(s, 256): the number a byte string encodes, least significant
\* byte first (trailing zero bytes do not change the value)
RECURSIVE mpz(_)
mpz(s) == IF s = <<>> THEN 0 ELSE Head(s) + Radix * mpz(Tail(s))

\* the bytes of number n in exactly `size' bytes, least significant first
RECURSIVE number_to_string(_, _)
number_to_string(n, size) ==
    IF size = 0 THEN <<>>
    ELSE <<n % Radix>> \o number_to_string(n \div Radix, size - 1)

\* Python's s[a:b] on a byte string (0-based, clipped to the string)
PySlice(s, a, b) ==
    LET lo == IF a < Len(s) THEN a ELSE Len(s)
        hi == IF b < Len(s) THEN b ELSE Len(s)
    IN IF hi <= lo THEN <<>> ELSE SubSeq(s, lo + 1, hi)

\* Python's s.ljust(width, '\0')
ljust(s, width) ==
    IF Len(s) >= width THEN s ELSE s \o [j \in 1 .. (width - Len(s)) |-> 0]

----------------------------------------------------------------------------
(* The primitives the safe is built on: struct packing, key derivation,    *)
(* the cipher stream, the caller's randfunc and ElGamal                     *)

\* struct.Struct('>B' / '>H' / '>I').pack(n): big-endian, `width' bytes;
\* struct.error when n does not fit
PackFits(n, width) == n >= 0 /\ n < RadixPow(width)

RECURSIVE Reverse(_)
Reverse(s) == IF s = <<>> THEN <<>> ELSE Reverse(Tail(s)) \o <<Head(s)>>

Pack(n, width) == Reverse(number_to_string(n, width))

Unpack(s) == mpz(Reverse(s))

\* KeyDerivation: kd([key, tag, index bytes], length), a fixed function
\* whose outputs differ for different keys
kd(key, tag, ixbytes, length) ==
    number_to_string((key * 37 + tag * 5 + mpz(ixbytes) * 11) % RadixPow(length),
                     length)

\* the keystream byte of Stream(k, iv) at position pos
Keystream(k, iv, pos) == (mpz(k) + 2 * mpz(iv) + 3 * pos + 1) % Radix

\* cipher.encrypt(s) of a stream that has already consumed pos bytes
StreamEncrypt(k, iv, pos, s) ==
    CHOOSE out \in {[j \in 1 .. Len(v) |-> (v[j] + Keystream(k, iv, pos + j - 1)) % Radix] :
                       v \in {s}} : TRUE

\* the inverse of StreamEncrypt
StreamDecrypt(k, iv, pos, s) ==
    CHOOSE out \in {[j \in 1 .. Len(v) |->
                        (v[j] + Radix - Keystream(k, iv, pos + j - 1)) % Radix] :
                       v \in {s}} : TRUE

\* the call-th draw of n bytes from the randfunc seeded with seed
randfunc(seed, call, n) ==
    number_to_string((seed * 7 + call * 3 + 1) % RadixPow(n), n)

\* pol.elgamal.pubkey_from_privkey
pubkey_from_privkey(privkey) == PowMod(G, privkey)

\* pol.elgamal.encrypt(string, pubkey, gp, size, randfunc), r drawn from
\* randfunc(size)
elgamal_encrypt(s, pubkey, r) ==
    [c1 |-> PowMod(G, r), c2 |-> (mpz(s) * PowMod(pubkey, r)) % P]

\* pol.elgamal.decrypt(c1, c2, privkey, gp, size)
elgamal_decrypt(c1, c2, privkey, size) ==
    number_to_string((c2 * Invert(PowMod(c1, privkey))) % P, size)

----------------------------------------------------------------------------
(* ElGamalSafe: helpers *)

index_to_bytes(index) == Pack(index, block_index_size)

slice_size_to_bytes(n) == Pack(n, slice_size)

\* _cipherstream: the key of the stream, kd([key, KD_SYMM], cipher.keysize)
cipherstream(key) == kd(key, KD_SYMM, <<>>, keysize)

\* _privkey_for_block
privkey_for_block(key, index) ==
    mpz(kd(key, KD_ELGAMAL, index_to_bytes(index), bytes_per_block) \o <<0>>)

\* the public key base key `key' gives block `index'
pubkey_for_block(key, index) == pubkey_from_privkey(privkey_for_block(key, index))

\* the empty string '' as a block field
EmptyStr == -1

\* gmpy.mpz(field, 256) of a block field
field_mpz(f) == IF f = EmptyStr THEN 0 ELSE f

\* a freshly generated block ['', '', '']
EmptyBlock == [c1 |-> EmptyStr, c2 |-> EmptyStr, pubkey |-> EmptyStr]

\* _eg_decrypt_block without the check of the block's public key
eg_decrypt_block_NoCheck(bl, key, index) ==
    [err |-> "none",
     out |-> elgamal_decrypt(field_mpz(bl[index].c1), field_mpz(bl[index].c2),
                             privkey_for_block(key, index), bytes_per_block)]

\* _eg_decrypt_block: WrongKeyError, or the plaintext
eg_decrypt_block(bl, key, index) ==
    LET privkey == privkey_for_block(key, index)
        pubkey == pubkey_from_privkey(privkey)
    IN IF bl[index].pubkey # pubkey
       THEN [err |-> "WrongKey", out |-> <<>>]
       ELSE [err |-> "none",
             out |-> elgamal_decrypt(field_mpz(bl[index].c1),
                                     field_mpz(bl[index].c2), privkey,
                                     bytes_per_block)]

\* _eg_encrypt_block with the bug of forgetting to claim the block
eg_encrypt_block_NoAnnex(bl, key, index, s, r, annex) ==
    LET pubkey == pubkey_for_block(key, index)
        c == elgamal_encrypt(s, pubkey, r)
    IN IF bl[index].pubkey # pubkey /\ ~annex
       THEN [err |-> "WrongKey", blocks |-> bl]
       ELSE [err |-> "none",
             blocks |-> [bl EXCEPT ![index] =
                            [c1 |-> c.c1, c2 |-> c.c2, pubkey |-> bl[index].pubkey]]]

\* _eg_encrypt_block that writes the ciphertext before it checks the key
eg_encrypt_block_WriteFirst(bl, key, index, s, r, annex) ==
    LET pubkey == pubkey_for_block(key, index)
        c == elgamal_encrypt(s, pubkey, r)
        written == [bl EXCEPT ![index] = [c1 |-> c.c1, c2 |-> c.c2,
                                          pubkey |-> bl[index].pubkey]]
    IN IF bl[index].pubkey # pubkey /\ ~annex
       THEN [err |-> "WrongKey", blocks |-> written]
       ELSE [err |-> "none",
             blocks |-> [written EXCEPT ![index].pubkey = pubkey]]

\* _eg_encrypt_block: WrongKeyError with the blocks as they were, or the
\* blocks with block `index' claimed and overwritten
eg_encrypt_block(bl, key, index, s, r, annex) ==
    LET pubkey == pubkey_for_block(key, index)
        c == elgamal_encrypt(s, pubkey, r)
    IN IF bl[index].pubkey # pubkey /\ ~annex
       THEN [err |-> "WrongKey", blocks |-> bl]
       ELSE [err |-> "none",
             blocks |-> [bl EXCEPT ![index] =
                            [c1 |-> c.c1, c2 |-> c.c2, pubkey |-> pubkey]]]

\* _eg_rerandomize_block that raises g, not the block's public key, to s
eg_rerandomize_block_WrongBase(raw_b, s) ==
    [c1 |-> (field_mpz(raw_b.c1) * PowMod(G, s)) % P,
     c2 |-> (field_mpz(raw_b.c2) * PowMod(G, s)) % P,
     pubkey |-> raw_b.pubkey]

\* _eg_rerandomize_block that also raises the public key to s
eg_rerandomize_block_Pubkey(raw_b, s) ==
    [c1 |-> (field_mpz(raw_b.c1) * PowMod(G, s)) % P,
     c2 |-> (field_mpz(raw_b.c2) * PowMod(field_mpz(raw_b.pubkey), s)) % P,
     pubkey |-> PowMod(field_mpz(raw_b.pubkey), s)]

\* _eg_rerandomize_block that does not reduce c1 modulo p
eg_rerandomize_block_NoMod(raw_b, s) ==
    [c1 |-> field_mpz(raw_b.c1) * PowMod(G, s),
     c2 |-> (field_mpz(raw_b.c2) * PowMod(field_mpz(raw_b.pubkey), s)) % P,
     pubkey |-> raw_b.pubkey]

\* _eg_rerandomize_block that leaves c1 as it was
eg_rerandomize_block_KeepC1(raw_b, s) ==
    [c1 |-> raw_b.c1,
     c2 |-> (field_mpz(raw_b.c2) * PowMod(field_mpz(raw_b.pubkey), s)) % P,
     pubkey |-> raw_b.pubkey]

\* _eg_rerandomize_block(raw_b, g, p) with exponent s: raw_b[0] and
\* raw_b[1] are assigned the binary() of the products, raw_b[2] is left
\* as it is
eg_rerandomize_block(raw_b, s) ==
    [c1 |-> (field_mpz(raw_b.c1) * PowMod(G, s)) % P,
     c2 |-> (field_mpz(raw_b.c2) * PowMod(field_mpz(raw_b.pubkey), s)) % P,
     pubkey |-> raw_b.pubkey]

----------------------------------------------------------------------------
(* ElGamalSafe.Slice: a slice is [indices, first_index]; the order of the  *)
(* list `indices' is never read (store shuffles a copy), so it is a set    *)

\* Slice.size
size(sl) ==
    Cardinality(sl.indices) * (bytes_per_block - block_index_size)
        - blocksize - slice_size

\* the orders random.shuffle can leave the elements of S in
Shuffles(S) ==
    {f \in [1 .. Cardinality(S) -> S] : \A a, b \in DOMAIN f : a # b => f[a] # f[b]}

Range(f) == {f[x] : x \in DOMAIN f}

\* The calls of _eg_encrypt_block that Slice.store makes, in order, each
\* with the block written, the next index packed into it and the plaintext
\* handed over (lines 126-160).  other_indices is the shuffled copy of
\* self.indices, iv the IV drawn from randfunc.
store_writes(sl, key, value, iv, other_indices) ==
    LET bpb == bytes_per_block
        total_size == size(sl)
        first_block_pt_size == bpb - blocksize - block_index_size
        offset == first_block_pt_size
        ptsize == bpb - block_index_size
        n == Len(other_indices)
        second_block == other_indices[1]
        next_index(j) == IF j + 1 <= n THEN other_indices[j + 1]
                         ELSE other_indices[j]
    IN CHOOSE ws \in
         {<<[index |-> sl.first_index, next |-> second_block,
             pt |-> iv \o StreamEncrypt(k, iv, 0,
                        PySlice(raw, 0, first_block_pt_size)
                            \o index_to_bytes(second_block))]>>
          \o [j \in 1 .. n |->
                [index |-> other_indices[j], next |-> next_index(j),
                 \* offset is never advanced: every block of the loop gets
                 \* raw[offset:offset+ptsize]; the stream has consumed the
                 \* first block's bytes and those of the j-1 blocks before
                 pt |-> StreamEncrypt(k, iv,
                            Len(PySlice(raw, 0, first_block_pt_size))
                                + block_index_size
                                + (j - 1) * (Len(PySlice(raw, offset, offset + ptsize))
                                                + block_index_size),
                            PySlice(raw, offset, offset + ptsize)
                                \o index_to_bytes(next_index(j)))]] :
            raw \in {ljust(slice_size_to_bytes(Len(value)) \o value, total_size)},
            k \in {cipherstream(key)}} : TRUE

\* the writes applied one after the other, each drawing its r from
\* randfunc; the first WrongKeyError ends the store where it stands
RECURSIVE apply_writes(_, _, _, _, _, _)
apply_writes(bl, key, writes, seed, call, annex) ==
    IF writes = <<>> THEN [err |-> "none", blocks |-> bl]
    ELSE CHOOSE res \in
           {IF r.err # "none" THEN r
            ELSE apply_writes(r.blocks, key, Tail(writes), seed, call + 1, annex) :
              r \in {eg_encrypt_block(bl, key, Head(writes).index, Head(writes).pt,
                                      mpz(randfunc(seed, call, bytes_per_block)),
                                      annex)}} : TRUE

\* Slice.store without the check of the value's length
store_NoCheck(bl, sl, key, value, seed, call, other_indices, annex) ==
    IF ~PackFits(Len(value), slice_size)
    THEN [err |-> "struct.error", blocks |-> bl, writes |-> <<>>]
    ELSE CHOOSE res \in UNION
           {{[err |-> r.err, blocks |-> r.blocks, writes |-> ws] :
               r \in {apply_writes(bl, key, ws, seed, call + 1, annex)}} :
              ws \in {store_writes(sl, key, value,
                                   randfunc(seed, call, blocksize),
                                   other_indices)}} : TRUE

\* Slice.store(key, value, randfunc, annex): the error it ends in, the
\* blocks it leaves and the writes it set out to make.  `call' is the
\* number of draws already taken from randfunc.
store(bl, sl, key, value, seed, call, other_indices, annex) ==
    IF Len(value) > size(sl)
    THEN [err |-> "ValueError", blocks |-> bl, writes |-> <<>>]
    ELSE IF ~PackFits(Len(value), slice_size)
    THEN [err |-> "struct.error", blocks |-> bl, writes |-> <<>>]
    \* line 144: first_block is no name of the method
    ELSE IF other_indices = <<>>
    THEN [err |-> "NameError", blocks |-> bl, writes |-> <<>>]
    ELSE CHOOSE res \in UNION
           {{[err |-> r.err, blocks |-> r.blocks, writes |-> ws] :
               r \in {apply_writes(bl, key, ws, seed, call + 1, annex)}} :
              ws \in {store_writes(sl, key, value,
                                   randfunc(seed, call, blocksize),
                                   other_indices)}} : TRUE

\* Slice.trash that hands the blocks of the slice back empty
trash_ToFree(bl, sl, key, seed, other_indices) ==
    [err |-> "none",
     blocks |-> [i \in DOMAIN bl |-> IF i \in sl.indices THEN EmptyBlock ELSE bl[i]],
     writes |-> <<>>]

\* Slice.trash that does not annex the blocks
trash_NoAnnex(bl, sl, key, seed, other_indices) ==
    store(bl, sl, key, randfunc(seed, 1, size(sl)), seed, 2, other_indices, FALSE)

\* Slice.trash(randfunc): key is the first draw of randfunc, the payload
\* the second
trash(bl, sl, key, seed, other_indices) ==
    store(bl, sl, key, randfunc(seed, 1, size(sl)), seed, 2, other_indices, TRUE)

----------------------------------------------------------------------------
(* pol.parallel.parallel_map as rerandomize uses it: the list of blocks is *)
(* cut into chunks of chunk_size blocks, the workers draw chunks from the  *)
(* shared work list, and the results are put together in the order of the  *)
(* input whatever the order the chunks come back in                        *)

Workers == 1 .. NWorkers

Chunks == 1 .. ((nblocks + chunk_size - 1) \div chunk_size)

\* the indices of the blocks of chunk c
ChunkIndices(c) ==
    {i \in Indices : i \div chunk_size = c - 1}

\* the chunk block i is in
ChunkOf(i) == (i \div chunk_size) + 1

\* the chunks 1 .. n in order, as the work list
RECURSIVE WorkList(_)
WorkList(n) == IF n = 0 THEN <<>> ELSE Append(WorkList(n - 1), n)

\* parallel_map that puts the chunks together in the order they came back
parallel_map_CompletionOrder(results, order) ==
    LET RECURSIVE Concat(_)
        Concat(o) ==
            IF o = <<>> THEN <<>>
            ELSE LET c == Head(o)
                     lo == (c - 1) * chunk_size
                     part == [j \in 1 .. Cardinality(ChunkIndices(c)) |->
                                 results[c][lo + j - 1]]
                 IN part \o Concat(Tail(o))
        l == Concat(order)
    IN [i \in 0 .. (Len(l) - 1) |-> l[i + 1]]

\* the list parallel_map returns: element i is the result for item i
parallel_map(results, order) ==
    [i \in Indices |-> results[ChunkOf(i)][i]]

----------------------------------------------------------------------------
(* ElGamalSafe: allocation *)

\* _new_slice that forgets to take the drawn blocks out of free_blocks
new_slice_KeepFree(free, nb, shuffled, choice) ==
    IF Cardinality(free) < nb
    THEN [err |-> "SafeFull", free_blocks |-> free, indices |-> {}, first_index |-> 0]
    ELSE IF nb = 0
    THEN [err |-> "ValueError", free_blocks |-> free, indices |-> {}, first_index |-> 0]
    ELSE [err |-> "none", free_blocks |-> free,
          indices |-> Range(PySlice(shuffled, 0, nb)),
          first_index |-> shuffled[choice]]

\* _new_slice that lets a request of one block too many through
new_slice_OffByOne(free, nb, shuffled, choice) ==
    IF Cardinality(free) + 1 < nb
    THEN [err |-> "SafeFull", free_blocks |-> free, indices |-> {}, first_index |-> 0]
    ELSE IF nb = 0
    THEN [err |-> "ValueError", free_blocks |-> free, indices |-> {}, first_index |-> 0]
    ELSE [err |-> "none",
          free_blocks |-> Range(PySlice(shuffled, nb, Len(shuffled))),
          indices |-> Range(PySlice(shuffled, 0, nb)),
          first_index |-> shuffled[IF choice <= Len(shuffled) THEN choice ELSE 1]]

\* _new_slice(nblocks): shuffled is list(free_blocks) after random.shuffle,
\* choice the position random.choice picks among the first nb of it
new_slice(free, nb, shuffled, choice) ==
    IF Cardinality(free) < nb
    THEN [err |-> "SafeFull", free_blocks |-> free, indices |-> {}, first_index |-> 0]
    ELSE IF nb = 0
    THEN [err |-> "ValueError", free_blocks |-> free, indices |-> {}, first_index |-> 0]
    ELSE [err |-> "none",
          free_blocks |-> Range(PySlice(shuffled, nb, Len(shuffled))),
          indices |-> Range(PySlice(shuffled, 0, nb)),
          first_index |-> shuffled[choice]]

\* mark_free that makes the given indices the free blocks
mark_free_Replace(free, indices) == indices

\* mark_free(indices)
mark_free(free, indices) == free \cup indices

----------------------------------------------------------------------------
(* Reading a slice back: the procedure of the container layer, which walks *)
(* the chain from first_index                                               *)

\* One step of the walk at block cur: the stream has consumed pos bytes,
\* acc are the payload bytes gathered, seen the blocks visited so far.
RECURSIVE read_walk(_, _, _, _, _, _, _)
read_walk(bl, key, cur, iv, pos, acc, seen) ==
    LET d == eg_decrypt_block(bl, key, cur)
        first == seen = <<>>
        iv2 == IF first THEN SubSeq(d.out, 1, blocksize) ELSE iv
        body == IF first THEN SubSeq(d.out, blocksize + 1, Len(d.out)) ELSE d.out
        plain == StreamDecrypt(cipherstream(key), iv2, pos, body)
        data == SubSeq(plain, 1, Len(plain) - block_index_size)
        next == Unpack(SubSeq(plain, Len(plain) - block_index_size + 1, Len(plain)))
        seen2 == Append(seen, cur)
    IN IF d.err # "none"
       THEN [err |-> d.err, raw |-> acc, visited |-> seen2]
       ELSE IF next = cur
       THEN [err |-> "none", raw |-> acc \o data, visited |-> seen2]
       ELSE IF next \notin Indices
       THEN [err |-> "IndexError", raw |-> acc \o data, visited |-> seen2]
       ELSE IF Len(seen2) > nblocks
       THEN [err |-> "loop", raw |-> acc \o data, visited |-> seen2]
       ELSE read_walk(bl, key, next, iv2, pos + Len(body), acc \o data, seen2)

\* the value read from the slice starting at first_index with base key key
read_slice(bl, key, first_index) ==
    LET w == read_walk(bl, key, first_index, <<>>, 0, <<>>, <<>>)
        n == Unpack(PySlice(w.raw, 0, slice_size))
    IN [err |-> w.err, visited |-> w.visited,
        value |-> IF w.err = "none"
                  THEN PySlice(w.raw, slice_size, slice_size + n) ELSE <<>>,
        complete |-> w.err = "none" /\ Len(w.raw) >= slice_size + n]

----------------------------------------------------------------------------
(* The safe as a state machine *)

VARIABLES
    blocks,        \* data['blocks']: block index -> [c1, c2, pubkey]
    free_blocks,   \* the set free_blocks
    slices,        \* the Slice objects _new_slice has returned
    recent,        \* the slices returned since the last mark_free
    last,          \* the last call made on the safe and how it ended
    steps,         \* number of calls made so far
    pmap           \* the parallel_map a rerandomize is waiting for

vars == <<blocks, free_blocks, slices, recent, last, steps, pmap>>

\* the exponents the rerandomizer draws for a block: the ends of [2, P]
\* and the order P - 1 of the group
RerandExps == {2, P - 1, P}

\* block plaintexts of exactly bytes_per_block bytes handed to
\* _eg_encrypt_block
Plaintexts == {<<0, 0, 0, 0>>, <<3, 3, 3, 3>>}

\* values handed to Slice.store
Values == {<<>>, <<1, 2, 3>>, <<3, 0, 1, 2>>, <<1, 0, 3, 2, 0, 1>>,
           <<1, 1, 1, 1, 1, 1, 1>>}

\* the base keys that own every block of ixs
Owners(bl, ixs) ==
    {k \in BaseKeys : \A i \in ixs : bl[i].pubkey = pubkey_for_block(k, i)}

\* A call and how it ended.  writes: for each call of _eg_encrypt_block a
\* store made, the block, the next index packed into it and the length of
\* the plaintext handed over; owners: the base keys that owned the blocks
\* the call is about before it; changed: the blocks it changed; exps: the
\* exponent a rerandomize drew for each block.
Call(op) ==
    [op |-> op, err |-> "none", key |-> 0, index |-> 0, annex |-> FALSE,
     value |-> <<>>, out |-> <<>>, slice |-> 0, nb |-> 0, writes |-> <<>>,
     owners |-> {}, changed |-> {}, exps |-> <<>>]

Changed(old, new) == {i \in DOMAIN old : old[i] # new[i]}

\* no parallel_map under way
PmapIdle ==
    [running |-> FALSE, input |-> <<>>, queue |-> <<>>,
     held |-> [w \in Workers |-> 0], results |-> [c \in Chunks |-> <<>>],
     exps |-> <<>>, order |-> <<>>]

\* ElGamalSafe.generate: n empty blocks, all marked free
Init ==
    /\ blocks = [i \in Indices |-> EmptyBlock]
    /\ free_blocks = mark_free({}, Indices)
    /\ slices = <<>>
    /\ recent = {}
    /\ last = Call("generate")
    /\ steps = 0
    /\ pmap = PmapIdle

NewSlice ==
    /\ steps < MaxSteps
    /\ ~pmap.running
    /\ \E nb \in 0 .. (nblocks + 1), shuffled \in Shuffles(free_blocks) :
         \E choice \in 1 .. (IF nb = 0 \/ nb > Len(shuffled) THEN 1 ELSE nb) :
           \E r \in {new_slice(free_blocks, nb, shuffled, choice)} :
              /\ r.err = "none" => Len(slices) < MaxSlices
              /\ free_blocks' = r.free_blocks
              /\ slices' = IF r.err = "none"
                           THEN Append(slices, [indices |-> r.indices,
                                                first_index |-> r.first_index])
                           ELSE slices
              /\ recent' = IF r.err = "none" THEN recent \cup {Len(slices) + 1}
                           ELSE recent
              /\ last' = [Call("new_slice") EXCEPT !.err = r.err, !.nb = nb,
                             !.slice = IF r.err = "none" THEN Len(slices) + 1 ELSE 0]
    /\ steps' = steps + 1
    /\ UNCHANGED pmap
    /\ UNCHANGED blocks

MarkFree ==
    /\ steps < MaxSteps
    /\ ~pmap.running
    /\ \E indices \in SUBSET Indices :
         /\ free_blocks' = mark_free(free_blocks, indices)
         /\ last' = Call("mark_free")
    /\ recent' = {}
    /\ steps' = steps + 1
    /\ UNCHANGED pmap
    /\ UNCHANGED <<blocks, slices>>

Store ==
    /\ steps < MaxSteps
    /\ ~pmap.running
    /\ \E s \in DOMAIN slices, key \in BaseKeys, value \in Values, seed \in Seeds,
          annex \in BOOLEAN :
         \E other_indices \in Shuffles(slices[s].indices) :
           \E r \in {store(blocks, slices[s], key, value, seed, 0, other_indices,
                           annex)} :
              /\ blocks' = r.blocks
              /\ last' = [Call("store") EXCEPT !.err = r.err, !.key = key,
                             !.slice = s, !.value = value, !.annex = annex,
                             !.writes = [j \in DOMAIN r.writes |->
                                            <<r.writes[j].index, r.writes[j].next,
                                              Len(r.writes[j].pt)>>],
                             !.owners = Owners(blocks, slices[s].indices),
                             !.changed = Changed(blocks, r.blocks)]
    /\ steps' = steps + 1
    /\ UNCHANGED pmap
    /\ UNCHANGED <<free_blocks, slices, recent>>

Trash ==
    /\ steps < MaxSteps
    /\ ~pmap.running
    /\ \E s \in DOMAIN slices, key \in RandomKeys, seed \in Seeds :
         \E other_indices \in Shuffles(slices[s].indices) :
           \E r \in {trash(blocks, slices[s], key, seed, other_indices)} :
              /\ blocks' = r.blocks
              /\ last' = [Call("trash") EXCEPT !.err = r.err, !.key = key,
                             !.slice = s,
                             !.owners = Owners(blocks, slices[s].indices),
                             !.changed = Changed(blocks, r.blocks)]
    /\ steps' = steps + 1
    /\ UNCHANGED pmap
    /\ UNCHANGED <<free_blocks, slices, recent>>

EgEncryptBlock ==
    /\ steps < MaxSteps
    /\ ~pmap.running
    /\ \E key \in BaseKeys, index \in Indices, s \in Plaintexts, seed \in Seeds,
          annex \in BOOLEAN :
         \E r \in {eg_encrypt_block(blocks, key, index, s,
                                    mpz(randfunc(seed, 0, bytes_per_block)), annex)} :
            /\ blocks' = r.blocks
            /\ last' = [Call("eg_encrypt_block") EXCEPT !.err = r.err, !.key = key,
                           !.index = index, !.value = s, !.annex = annex,
                           !.owners = Owners(blocks, {index}),
                           !.changed = Changed(blocks, r.blocks)]
    /\ steps' = steps + 1
    /\ UNCHANGED pmap
    /\ UNCHANGED <<free_blocks, slices, recent>>

EgDecryptBlock ==
    /\ steps < MaxSteps
    /\ ~pmap.running
    /\ \E key \in BaseKeys, index \in Indices :
         \E r \in {eg_decrypt_block(blocks, key, index)} :
            last' = [Call("eg_decrypt_block") EXCEPT !.err = r.err, !.key = key,
                        !.index = index, !.out = r.out,
                        !.owners = Owners(blocks, {index})]
    /\ steps' = steps + 1
    /\ UNCHANGED pmap
    /\ UNCHANGED <<blocks, free_blocks, slices, recent>>

\* rerandomize: parallel_map applies _eg_rerandomize_block to every block,
\* each with an exponent of its own
Rerandomize ==
    /\ steps < MaxSteps
    /\ ~pmap.running
    /\ \E s \in [DOMAIN blocks -> RerandExps] :
         \E new \in {[i \in DOMAIN blocks |-> eg_rerandomize_block(blocks[i], s[i])]} :
            /\ blocks' = new
            /\ last' = [Call("rerandomize") EXCEPT !.changed = Changed(blocks, new),
                                                   !.exps = s]
    /\ steps' = steps + 1
    /\ UNCHANGED pmap
    /\ UNCHANGED <<free_blocks, slices, recent>>

\* rerandomize hands the blocks to parallel_map and waits (line 287)
RerandomizeStart ==
    /\ steps < MaxSteps
    /\ ~pmap.running
    /\ pmap' = [PmapIdle EXCEPT !.running = TRUE, !.input = blocks,
                                !.queue = WorkList(Cardinality(Chunks)),
                                !.exps = [i \in {} |-> 0]]
    /\ UNCHANGED <<blocks, free_blocks, slices, recent, last, steps>>

\* an idle worker draws the next chunk from the work list
WorkerTake ==
    /\ pmap.running
    /\ pmap.queue # <<>>
    /\ \E w \in Workers :
         /\ pmap.held[w] = 0
         /\ pmap' = [pmap EXCEPT !.held[w] = Head(pmap.queue),
                                 !.queue = Tail(pmap.queue)]
    /\ UNCHANGED <<blocks, free_blocks, slices, recent, last, steps>>

\* a worker has applied _eg_rerandomize_block to the blocks of its chunk,
\* each with an exponent of its own, and hands the chunk back
WorkerReturn ==
    /\ pmap.running
    /\ \E w \in Workers :
         /\ pmap.held[w] # 0
         /\ \E s \in [ChunkIndices(pmap.held[w]) -> RerandExps] :
              pmap' = [pmap EXCEPT
                         !.held[w] = 0,
                         !.results[pmap.held[w]] =
                            [i \in ChunkIndices(pmap.held[w]) |->
                                eg_rerandomize_block(pmap.input[i], s[i])],
                         !.exps = [i \in DOMAIN pmap.exps \cup DOMAIN s |->
                                      IF i \in DOMAIN s THEN s[i] ELSE pmap.exps[i]],
                         !.order = Append(pmap.order, pmap.held[w])]
    /\ UNCHANGED <<blocks, free_blocks, slices, recent, last, steps>>

\* every chunk is back: rerandomize installs the list parallel_map returns
\* as data['blocks'] (line 287)
RerandomizeInstall ==
    /\ pmap.running
    /\ pmap.queue = <<>>
    /\ \A w \in Workers : pmap.held[w] = 0
    /\ \E new \in {parallel_map(pmap.results, pmap.order)} :
         /\ blocks' = new
         /\ last' = [Call("rerandomize") EXCEPT !.changed = Changed(blocks, new),
                                                !.exps = pmap.exps,
                                                !.out = pmap.order]
    /\ pmap' = PmapIdle
    /\ steps' = steps + 1
    /\ UNCHANGED <<free_blocks, slices, recent>>

Next ==
    \/ NewSlice
    \/ MarkFree
    \/ Store
    \/ Trash
    \/ EgEncryptBlock
    \/ EgDecryptBlock
    \/ Rerandomize

Spec == Init /\ [][Next]_vars

----------------------------------------------------------------------------
(* Constructing a safe from a serialised map: Safe.load, Safe.__init__ and *)
(* ElGamalSafe.__init__.  A value of the map is [t, v, e]: its type, its   *)
(* number (an int's value, a list's length) and, for a list, the type of   *)
(* its elements; t = "absent" stands for a key the map does not hold.      *)

Val(t, v, e) == [t |-> t, v |-> v, e |-> e]
Absent == Val("absent", 0, "")

\* the map ElGamalSafe.generate builds (lines 229-238)
ValidData ==
    [type |-> Val("str", 0, "elgamal"),
     n_blocks |-> Val("int", nblocks, ""),
     bytes_per_block |-> Val("int", bytes_per_block, ""),
     block_index_size |-> Val("int", block_index_size, ""),
     slice_size |-> Val("int", slice_size, ""),
     group_params |-> Val("list", 2, "str"),
     key_stretching |-> Val("map", 0, ""),
     key_derivation |-> Val("map", 0, ""),
     block_cipher |-> Val("map", 0, ""),
     blocks |-> Val("list", nblocks, "list")]

DataKeys == DOMAIN ValidData

\* what a map may hold under each key instead of the valid value: nothing,
\* a value of another type, a value of the right type that is out of range
Faults(k) ==
    {Absent} \cup
    CASE k = "type" -> {Val("int", 7, ""), Val("str", 0, "other")}
      [] k = "n_blocks" -> {Val("str", 0, "3"), Val("int", nblocks - 1, "")}
      [] k = "bytes_per_block" -> {Val("str", 0, "4"), Val("int", bytes_per_block + 1, "")}
      [] k = "block_index_size" -> {Val("str", 0, "1"), Val("int", 3, "")}
      [] k = "slice_size" -> {Val("str", 0, "2"), Val("int", 3, "")}
      [] k = "group_params" -> {Val("str", 0, "gp"), Val("list", 3, "str"),
                                Val("list", 2, "int")}
      [] k = "blocks" -> {Val("str", 0, "b"), Val("list", nblocks + 1, "list")}
      [] OTHER -> {}

WithFault(d, k) == {[d EXCEPT ![k] = f] : f \in Faults(k)}

\* the types ElGamalSafe.__init__ asks for (lines 170-175)
AttrTypes ==
    [blocks |-> "list", group_params |-> "list", block_index_size |-> "int",
     slice_size |-> "int", bytes_per_block |-> "int", n_blocks |-> "int"]

\* the map generate builds for n blocks
Resized(n) ==
    [ValidData EXCEPT !.n_blocks = Val("int", n, ""),
                      !.blocks = Val("list", n, "list")]

\* d with attribute k of the type loop absent or of another type
WithTypeFault(d, k) == {x \in WithFault(d, k) : x[k].t # AttrTypes[k]}

\* The maps handed to load: the valid map; the map of a safe of one block
\* more than block-index-size bytes can count; the valid map with one key
\* at fault; and, as the type loop visits its attributes in no fixed
\* order, the valid map with two attributes of that loop absent or
\* ill-typed.
DataMaps ==
    {ValidData, Resized(RadixPow(block_index_size) + 1)}
        \cup UNION {WithFault(ValidData, k) : k \in DataKeys}
        \cup UNION {WithTypeFault(d, k) :
                       d \in UNION {WithTypeFault(ValidData, a) : a \in DOMAIN AttrTypes},
                       k \in DOMAIN AttrTypes}

\* the first attribute of the sequence attrs that the map does not hold, or ""
RECURSIVE FirstMissing(_, _)
FirstMissing(data, attrs) ==
    IF attrs = <<>> THEN ""
    ELSE IF data[Head(attrs)].t = "absent" THEN Head(attrs)
    ELSE FirstMissing(data, Tail(attrs))

\* The errors the loop of lines 170-177 can end in: it visits the
\* attributes in the order of a dict, which the code does not fix, and
\* stops at the first that raises: data[attr] raises KeyError for a key the
\* map does not hold, a value of another type raises SafeFormatError.
TypeLoopErrors(data) ==
    {IF data[a].t = "absent" THEN "KeyError" ELSE "SafeFormat" :
        a \in {x \in DOMAIN AttrTypes : data[x].t # AttrTypes[x]}}

\* Safe.load(stream) on the map the stream unpacks to: the errors it can
\* end in ("none": the safe is constructed)
load(data) ==
    \* Safe.load, lines 76-78
    IF data.type.t # "str" \/ data.type.e # "elgamal" THEN {"SafeFormat"}
    \* Safe.__init__, lines 53-58
    ELSE IF FirstMissing(data, <<"key_stretching", "key_derivation",
                                 "block_cipher">>) # "" THEN {"SafeFormat"}
    \* ElGamalSafe.__init__, lines 166-169
    ELSE IF FirstMissing(data, <<"group_params", "n_blocks", "blocks",
                                 "block_index_size", "slice_size">>) # ""
    THEN {"SafeFormat"}
    \* lines 170-177
    ELSE IF TypeLoopErrors(data) # {} THEN TypeLoopErrors(data)
    \* lines 178-185
    ELSE IF data.blocks.v # data.n_blocks.v THEN {"SafeFormat"}
    ELSE IF data.group_params.v # 2 THEN {"SafeFormat"}
    ELSE IF data.group_params.e # "str" THEN {"SafeFormat"}
    \* lines 186-199
    ELSE IF data.slice_size.v \notin {2, 4} THEN {"SafeFormat"}
    ELSE IF data.block_index_size.v \notin {1, 2, 4} THEN {"SafeFormat"}
    \* lines 200-202
    ELSE IF RadixPow(data.bytes_per_block.v) >= P THEN {"SafeFormat"}
    ELSE {"none"}

\* Safe.load: a safe constructed from a map starts with the map's blocks
\* and no free block; a map that is refused constructs nothing
Load ==
    /\ steps < MaxSteps
    /\ ~pmap.running
    /\ \E data \in DataMaps :
         \E err \in load(data) :
            /\ last' = [Call("load") EXCEPT !.err = err, !.value = data]
            /\ blocks' = IF err = "none"
                         THEN [i \in 0 .. (data.n_blocks.v - 1) |-> EmptyBlock]
                         ELSE blocks
            /\ free_blocks' = IF err = "none" THEN {} ELSE free_blocks
            /\ slices' = IF err = "none" THEN <<>> ELSE slices
            /\ recent' = IF err = "none" THEN {} ELSE recent
    /\ steps' = steps + 1
    /\ UNCHANGED pmap

NextLoad == Load \/ MarkFree

SpecLoad == Init /\ [][NextLoad]_vars

\* the allocator alone
NextAlloc == NewSlice \/ MarkFree

SpecAlloc == Init /\ [][NextAlloc]_vars

\* the slice engine and the rerandomizer
NextSlice == NewSlice \/ Store \/ Trash \/ Rerandomize

SpecSlice == Init /\ [][NextSlice]_vars

\* the rerandomizer with its workers, on blocks written with
\* _eg_encrypt_block
NextRerand ==
    \/ EgEncryptBlock
    \/ RerandomizeStart
    \/ WorkerTake
    \/ WorkerReturn
    \/ RerandomizeInstall

SpecRerand == Init /\ [][NextRerand]_vars

\* every operation on a safe, the construction from a map included
NextSafe == Next \/ Load

SpecSafe == Init /\ [][NextSafe]_vars

\* the block operations alone
NextBlock == EgEncryptBlock \/ EgDecryptBlock \/ Rerandomize

SpecBlock == Init /\ [][NextBlock]_vars

----------------------------------------------------------------------------
(* The claims *)

TheSlice == slices[last.slice]

\* C1 (as claimed): after Slice.store(base_key, v, annex=True) has stored a
\* value v of at most slice.size bytes, reading the slice back from
\* first_index with base_key returns exactly v.
C1_SliceRoundTrip ==
    (last.op = "store" /\ last.annex /\ last.err = "none")
        => LET r == read_slice(blocks, last.key, TheSlice.first_index)
           IN r.err = "none" /\ r.complete /\ r.value = last.value

\* C2 (as claimed): a store on a slice of k blocks writes first_index once,
\* with next the first of the k-1 other indices (itself when k = 1), each
\* later block with next the following one and the last with next itself,
\* so that the chain from first_index visits each block of the slice once.
C2_ChainStructure ==
    (last.op = "store" /\ last.err = "none")
        => LET ws == last.writes
               k == Cardinality(TheSlice.indices)
           IN /\ Len(ws) = k
              /\ ws[1][1] = TheSlice.first_index
              /\ \A j \in 2 .. Len(ws) : ws[j][1] # TheSlice.first_index
              /\ {ws[j][1] : j \in DOMAIN ws} = TheSlice.indices
              /\ \A j \in DOMAIN ws :
                    ws[j][2] = IF j < Len(ws) THEN ws[j + 1][1] ELSE ws[j][1]

\* C3: a rerandomize leaves the plaintext of every claimed block as it was:
\* for every block and the base key that owns it, _eg_decrypt_block
\* succeeds after the rerandomize and returns what it returned before.
C3_RerandomizePreservesPlaintext ==
    [][last'.op = "rerandomize"
         => \A key \in BaseKeys \cup RandomKeys, i \in Indices :
               blocks[i].pubkey = pubkey_for_block(key, i)
                  => /\ eg_decrypt_block(blocks', key, i).err = "none"
                     /\ eg_decrypt_block(blocks', key, i)
                           = eg_decrypt_block(blocks, key, i)]_vars

\* a rerandomize has changed a block that a base key owns, after an
\* earlier rerandomize or write
C3_Witness ==
    /\ last.op = "rerandomize"
    /\ steps >= 3
    /\ \E i \in last.changed : Owners(blocks, {i}) # {}

\* C4: _eg_encrypt_block with a key that does not own the block fails with
\* WrongKey and changes no block when annex is false, and succeeds and
\* sets the block's pubkey to the key's when annex is true.
C4_AnnexDiscipline ==
    [][(/\ last'.op = "eg_encrypt_block"
        /\ blocks[last'.index].pubkey # pubkey_for_block(last'.key, last'.index))
         => IF last'.annex
            THEN /\ last'.err = "none"
                 /\ blocks'[last'.index].pubkey
                       = pubkey_for_block(last'.key, last'.index)
            ELSE /\ last'.err = "WrongKey"
                 /\ blocks' = blocks]_vars

\* an encrypt without annex has been refused on a block another key owns
C4_Witness ==
    /\ last.op = "eg_encrypt_block"
    /\ ~last.annex
    /\ last.err = "WrongKey"
    /\ last.owners # {}
    /\ last.key \notin last.owners

\* C5: _eg_decrypt_block raises WrongKey whenever the block's pubkey is not
\* the key's, and changes no block and not free_blocks.
C5_DecryptWrongKey ==
    [][last'.op = "eg_decrypt_block"
         => /\ blocks[last'.index].pubkey # pubkey_for_block(last'.key, last'.index)
                  => last'.err = "WrongKey"
            /\ blocks' = blocks
            /\ free_blocks' = free_blocks]_vars

\* a block of a slice stored under another base key has been refused
C5_Witness ==
    /\ last.op = "eg_decrypt_block"
    /\ last.err = "WrongKey"
    /\ last.owners # {}
    /\ \E s \in DOMAIN slices :
          /\ last.index \in slices[s].indices
          /\ Owners(blocks, slices[s].indices) # {}

\* C6: after _eg_encrypt_block(base_key, i, m, annex=True), whatever the
\* block was before, _eg_decrypt_block(base_key, i) succeeds and returns m.
C6_BlockRoundTrip ==
    (last.op = "eg_encrypt_block" /\ last.annex)
        => /\ last.err = "none"
           /\ eg_decrypt_block(blocks, last.key, last.index)
                 = [err |-> "none", out |-> last.value]

\* a block another key owned has been annexed and overwritten
C6_Witness ==
    /\ last.op = "eg_encrypt_block"
    /\ last.annex
    /\ last.owners # {}
    /\ last.key \notin last.owners
    /\ last.value # <<0, 0, 0, 0>>

\* the slices returned since the last mark_free share no block with each
\* other nor with free_blocks
RecentDisjoint ==
    \A a \in recent :
       /\ slices[a].indices \cap free_blocks = {}
       /\ \A b \in recent : a # b => slices[a].indices \cap slices[b].indices = {}

\* C7: a successful _new_slice(k) returns k distinct indices taken from
\* free_blocks, first_index among them, and removes exactly those from
\* free_blocks; the slices returned with no mark_free in between are
\* pairwise disjoint and disjoint from the remaining free_blocks.
C7_FreeBlockDisjointness ==
    [][(last'.op = "new_slice" /\ last'.err = "none")
         => LET sl == slices'[last'.slice]
            IN /\ sl.indices \subseteq free_blocks
               /\ Cardinality(sl.indices) = last'.nb
               /\ sl.first_index \in sl.indices
               /\ free_blocks' = free_blocks \ sl.indices
               /\ RecentDisjoint']_vars

\* a second slice has been allocated with no mark_free since the first
C7_Witness ==
    /\ last.op = "new_slice"
    /\ last.err = "none"
    /\ Cardinality(recent) >= 2
    /\ Cardinality(TheSlice.indices) >= 2

\* C8: _new_slice(k) fails with SafeFull exactly when |free_blocks| < k and
\* with an invalid-argument error when k = 0; a failure leaves free_blocks
\* unchanged; once no block is free every request of k >= 1 blocks fails
\* with SafeFull.
C8_SafeFull ==
    [][last'.op = "new_slice"
         => /\ last'.err = "SafeFull" <=> Cardinality(free_blocks) < last'.nb
            /\ last'.nb = 0 => last'.err = "ValueError"
            /\ last'.err # "none" => free_blocks' = free_blocks /\ slices' = slices
            /\ (free_blocks = {} /\ last'.nb >= 1) => last'.err = "SafeFull"]_vars

\* every block of the generated safe has been allocated and a further
\* request has failed with SafeFull
C8_Witness ==
    /\ last.op = "new_slice"
    /\ last.err = "SafeFull"
    /\ last.nb >= 1
    /\ free_blocks = {}
    /\ UNION {slices[s].indices : s \in DOMAIN slices} = Indices

\* C9: after Slice.trash() on a slice stored under a base key, every block
\* of the slice has another pubkey than before, that of the fresh random
\* key, and _eg_decrypt_block raises WrongKey on it for every base key.
C9_TrashReclaims ==
    [][(last'.op = "trash" /\ last'.owners # {})
         => \A i \in slices[last'.slice].indices :
               /\ blocks'[i].pubkey # blocks[i].pubkey
               /\ blocks'[i].pubkey = pubkey_for_block(last'.key, i)
               /\ \A key \in BaseKeys :
                     eg_decrypt_block(blocks', key, i).err = "WrongKey"]_vars

\* a slice of several blocks stored under a base key has been trashed
C9_Witness ==
    /\ last.op = "trash"
    /\ last.err = "none"
    /\ last.owners # {}
    /\ Cardinality(TheSlice.indices) >= 2

\* C10 (as claimed): loading a map in which one required key is absent or
\* has the wrong type ends in SafeFormat and in no other error; so does a
\* map with len(blocks) # n-blocks, a slice-size outside {2, 4}, a
\* block-index-size outside {1, 2, 4}, group-params of another arity than 2
\* or 2^(8B) >= p.
C10_LoadValidation ==
    (last.op = "load" /\ last.value # ValidData
        /\ Cardinality({k \in DataKeys : last.value[k] # ValidData[k]}) = 1)
        => last.err = "SafeFormat"

\* C11: a rerandomize leaves the pubkey of every block, claimed or free, as
\* it was, keeps the number of blocks, and changes nothing of the safe but
\* the c1 and c2 of its blocks.
C11_PubkeyInvariance ==
    [][last'.op = "rerandomize"
         => /\ DOMAIN blocks' = DOMAIN blocks
            /\ \A i \in Indices : blocks'[i].pubkey = blocks[i].pubkey
            /\ free_blocks' = free_blocks
            /\ slices' = slices]_vars

\* a rerandomize has changed a claimed block of a safe that also holds a
\* block never written
C11_Witness ==
    /\ last.op = "rerandomize"
    /\ \E i \in last.changed : Owners(blocks, {i}) # {}
    /\ \E j \in Indices : blocks[j].pubkey = EmptyStr

\* C12 (as claimed): after a rerandomize the (c1, c2) of every block of the
\* safe, written or never written, differs from what it was, whatever
\* exponent of [2, P] was drawn for the block.
C12_RerandomizeChangesCiphertext ==
    [][last'.op = "rerandomize"
         => \A i \in Indices :
               <<blocks'[i].c1, blocks'[i].c2>> # <<blocks[i].c1, blocks[i].c2>>]_vars

\* C12 (amended): a rerandomize changes the c1 of a claimed block exactly
\* when the exponent s drawn for it is no multiple of the group order
\* P - 1; with s = P - 1 (which lies in [2, P]) the block stays as it was;
\* a block never written gets c1 = c2 = 0 whatever s is, so that it stays
\* as it was from the second rerandomize on.
C12_Amended ==
    [][last'.op = "rerandomize"
         => \A i \in Indices :
               LET s == last'.exps[i]
               IN /\ (blocks[i].pubkey # EmptyStr /\ s % (P - 1) # 0)
                        => blocks'[i].c1 # blocks[i].c1
                  /\ (blocks[i].pubkey # EmptyStr /\ s % (P - 1) = 0)
                        => blocks'[i] = blocks[i]
                  /\ blocks[i].pubkey = EmptyStr
                        => /\ blocks'[i].c1 = 0 /\ blocks'[i].c2 = 0
                           /\ blocks[i].c1 = 0 => blocks'[i] = blocks[i]]_vars

\* a rerandomize has drawn P - 1 for one claimed block and another
\* exponent for a second claimed block, which it changed
C12_Witness ==
    /\ last.op = "rerandomize"
    /\ \E i, j \in Indices :
          /\ blocks[i].pubkey # EmptyStr /\ last.exps[i] = P - 1
          /\ blocks[j].pubkey # EmptyStr /\ j \in last.changed

\* C13 (as claimed): every safe that load (or generate, which hands the
\* same constructor the map it builds) returns has n_blocks <= 2^(8 I), so
\* that _index_to_bytes succeeds for every index of a block of the safe.
C13_IndicesFit ==
    (last.op = "load" /\ last.err = "none")
        => /\ last.value.n_blocks.v <= RadixPow(last.value.block_index_size.v)
           /\ \A i \in DOMAIN blocks :
                 PackFits(i, last.value.block_index_size.v)

\* C14 (as claimed): in every state reachable from generate by _new_slice,
\* Slice.store, Slice.trash and rerandomize every block of the safe has
\* 0 < c1 < P, 0 < c2 < P and 0 < pubkey < P.
C14_BlockValues ==
    \A i \in Indices :
       /\ 0 < blocks[i].c1 /\ blocks[i].c1 < P
       /\ 0 < blocks[i].c2 /\ blocks[i].c2 < P
       /\ 0 < blocks[i].pubkey /\ blocks[i].pubkey < P

\* C14 (amended): in every such state a claimed block (one whose pubkey is
\* not empty) has 0 < c1 < P, 0 <= c2 < P and 0 < pubkey < P, c2 being 0
\* for a block plaintext of zero bytes only; a block never written has an
\* empty pubkey and c1, c2 empty or, once rerandomized, 0.
C14_Amended ==
    \A i \in Indices :
       IF blocks[i].pubkey # EmptyStr
       THEN /\ 0 < blocks[i].c1 /\ blocks[i].c1 < P
            /\ 0 <= blocks[i].c2 /\ blocks[i].c2 < P
            /\ 0 < blocks[i].pubkey /\ blocks[i].pubkey < P
            /\ blocks[i].c2 = 0
                  => \A key \in BaseKeys \cup RandomKeys :
                        blocks[i].pubkey = pubkey_for_block(key, i)
                           => mpz(eg_decrypt_block(blocks, key, i).out) = 0
       ELSE /\ blocks[i].c1 \in {EmptyStr, 0}
            /\ blocks[i].c2 = blocks[i].c1

\* a rerandomize has changed the claimed blocks of a stored slice in a
\* safe that also holds a block never written, now rerandomized to 0
C14_Witness ==
    /\ last.op = "rerandomize"
    /\ \E i \in last.changed : blocks[i].pubkey # EmptyStr
    /\ \E j \in Indices : blocks[j].pubkey = EmptyStr /\ blocks[j].c1 = 0

C16_NoWayBackToFree ==
    [][\A i \in Indices :
          blocks[i].pubkey # EmptyStr
             => /\ blocks'[i].pubkey # EmptyStr
                /\ \/ blocks'[i].pubkey = blocks[i].pubkey
                   \/ \E key \in BaseKeys \cup RandomKeys :
                         blocks'[i].pubkey = pubkey_for_block(key, i)]_vars

\* the blocks of a slice a base key owned have been trashed and are now
\* claimed by the random key of the trash
C16_Witness ==
    /\ last.op = "trash"
    /\ last.owners # {}
    /\ \A i \in TheSlice.indices :
          /\ blocks[i].pubkey # EmptyStr
          /\ blocks[i].pubkey = pubkey_for_block(last.key, i)

\* C17: whatever the workers' interleaving and the order the chunks come
\* back in, the list rerandomize installs has the n blocks of the input,
\* and its element i is the input's block i rerandomized: same pubkey,
\* c1 and c2 those of block i raised by one exponent, and the same
\* decryption for the key that owns it.
C17_PermutationStable ==
    [][(pmap.running /\ ~pmap'.running)
         => /\ DOMAIN blocks' = Indices
            /\ \A i \in Indices :
                  /\ blocks'[i].pubkey = pmap.input[i].pubkey
                  /\ \E s \in RerandExps :
                        blocks'[i] = eg_rerandomize_block(pmap.input[i], s)
                  /\ \A key \in BaseKeys :
                        pmap.input[i].pubkey = pubkey_for_block(key, i)
                           => eg_decrypt_block(blocks', key, i)
                                 = eg_decrypt_block(pmap.input, key, i)]_vars

\* a rerandomize whose second chunk came back before the first has
\* changed claimed blocks of both chunks
C17_Witness ==
    /\ last.op = "rerandomize"
    /\ Len(last.out) >= 2 /\ last.out[1] > last.out[2]
    /\ \E i, j \in last.changed :
          /\ ChunkOf(i) # ChunkOf(j)
          /\ blocks[i].pubkey # EmptyStr
          /\ blocks[j].pubkey # EmptyStr

\* C18 (as claimed): every call of _eg_encrypt_block a Slice.store makes
\* on a slice of k blocks hands over a plaintext of exactly B bytes, and
\* the payload bytes enciphered over all the calls (the plaintexts less
\* the IV and the I index bytes of each) total (B - I) k - cipher.blocksize.
C18_PayloadLength ==
    (last.op = "store" /\ last.err = "none")
        => LET ws == last.writes
               k == Cardinality(TheSlice.indices)
               RECURSIVE Payload(_)
               Payload(j) == IF j = 0 THEN 0
                             ELSE (ws[j][3] - block_index_size) + Payload(j - 1)
           IN /\ \A j \in DOMAIN ws : ws[j][3] = bytes_per_block
              /\ Payload(Len(ws)) - blocksize
                    = (bytes_per_block - block_index_size) * k - blocksize

\* C19: free_blocks is changed by mark_free, which adds indices, and by a
\* successful _new_slice, which removes the indices of the slice it
\* returns, and by nothing else: Slice.store, Slice.trash, rerandomize,
\* _eg_encrypt_block, _eg_decrypt_block and a failed _new_slice leave it as
\* it was, so that a trash puts no block of its slice into free_blocks; a
\* generated safe starts with every block free, a loaded one with none.
C19_FreeBlocksFrame ==
    [][/\ last.op = "generate" => free_blocks = Indices
       /\ last'.op \in {"store", "trash", "rerandomize", "eg_encrypt_block",
                         "eg_decrypt_block"}
             => free_blocks' = free_blocks
       /\ last'.op = "trash"
             => slices[last'.slice].indices \cap free_blocks'
                   = slices[last'.slice].indices \cap free_blocks
       /\ last'.op = "mark_free"
             => \E indices \in SUBSET Indices : free_blocks' = free_blocks \cup indices
       /\ last'.op = "new_slice"
             => free_blocks' = IF last'.err = "none"
                               THEN free_blocks \ slices'[last'.slice].indices
                               ELSE free_blocks
       /\ last'.op = "load"
             => free_blocks' = IF last'.err = "none" THEN {} ELSE free_blocks]_vars

\* a slice stored under a base key has been trashed while other blocks
\* are free: none of its blocks is in free_blocks
C19_Witness ==
    /\ last.op = "trash"
    /\ last.err = "none"
    /\ last.owners # {}
    /\ free_blocks # {}
    /\ TheSlice.indices \cap free_blocks = {}

\* C20 (as claimed): a Slice.store changes no block outside its slice, and
\* a Slice.store(key, v, annex=False) that raises WrongKey has changed no
\* block of the safe at all.
C20_StoreFailsCleanly ==
    last.op = "store"
        => /\ last.changed \subseteq TheSlice.indices
           /\ (last.err = "WrongKey" /\ ~last.annex) => last.changed = {}

====
